---------------------------- MODULE Spec2Model ----------------------------
(***************************************************************************)
(* The HTTP service of backend/app.py and backend/routes/rewrite.py.       *)
(*                                                                         *)
(* Text is a sequence of one-character strings.  Two characters cannot be  *)
(* written inside a TLA+ string and are named by their code point: the     *)
(* backtick (BT) and the bullet U+2022 (Bullet).                           *)
(*                                                                         *)
(* The completion provider is the environment: every call a handler makes  *)
(* gets an outcome, either an error carrying a message or a completion     *)
(* carrying a text.                                                        *)
(***************************************************************************)
EXTENDS Integers, Sequences, FiniteSets, TLC

VARIABLES
    req,            \* the request being answered (observation of the exchange)
    resp,           \* the response to it: [status, body]
    upstream_calls, \* completion calls made while answering req
    tmpdir          \* tempfile.gettempdir(): file name -> file text

vars == <<req, resp, upstream_calls, tmpdir>>

-----------------------------------------------------------------------------
(* Bounds of the model *)

MaxContentLen == 2  \* length of the "content" strings the requests carry
MaxFiles == 2       \* temp files the model lets routes/rewrite.py create
MaxPieces == 6      \* pieces a /rewrite model output is built of
MaxLines == 3       \* lines a /keywords model output is built of

-----------------------------------------------------------------------------
(* Characters *)

BT == "U+0060"
Bullet == "U+2022"
NL == "\n"
Fence == <<BT, BT, BT>>

\* str.strip() with no argument strips whitespace
Whitespace == {" ", "\t", "\n", "\r", "\f"}

\* the line boundaries of str.splitlines() among the characters used
LineBreaks == {"\n", "\r", "\f"}

\* the argument of line.strip(" -<bullet><tab>")
BulletChars == {" ", "-", Bullet, "\t"}

\* the class [a-zA-Z] of the opening fence pattern
Letters ==
    {"a","b","c","d","e","f","g","h","i","j","k","l","m",
     "n","o","p","q","r","s","t","u","v","w","x","y","z",
     "A","B","C","D","E","F","G","H","I","J","K","L","M",
     "N","O","P","Q","R","S","T","U","V","W","X","Y","Z"}

-----------------------------------------------------------------------------
(* Python string operations, as the handlers use them *)

RECURSIVE LStripSet(_, _)
LStripSet(s, cs) ==
    IF s = <<>> \/ Head(s) \notin cs THEN s ELSE LStripSet(Tail(s), cs)

RECURSIVE RStripSet(_, _)
RStripSet(s, cs) ==
    IF s = <<>> \/ s[Len(s)] \notin cs THEN s
    ELSE RStripSet(SubSeq(s, 1, Len(s) - 1), cs)

\* s.strip(chars)
StripSet(s, cs) == RStripSet(LStripSet(s, cs), cs)

\* s.strip()
Strip(s) == StripSet(s, Whitespace)

\* s.startswith(p)
StartsWith(s, p) == Len(s) >= Len(p) /\ SubSeq(s, 1, Len(p)) = p

EndsWith(s, p) ==
    Len(s) >= Len(p) /\ SubSeq(s, Len(s) - Len(p) + 1, Len(s)) = p

RECURSIVE SplitAcc(_, _, _)
SplitAcc(s, cur, acc) ==
    IF s = <<>> THEN (IF cur = <<>> THEN acc ELSE Append(acc, cur))
    ELSE IF Len(s) >= 2 /\ s[1] = "\r" /\ s[2] = "\n"
         THEN SplitAcc(SubSeq(s, 3, Len(s)), <<>>, Append(acc, cur))
    ELSE IF Head(s) \in LineBreaks
         THEN SplitAcc(Tail(s), <<>>, Append(acc, cur))
    ELSE SplitAcc(Tail(s), Append(cur, Head(s)), acc)

\* s.splitlines(): the line breaks are dropped, a final line break opens no
\* further line
SplitLines(s) == SplitAcc(s, <<>>, <<>>)

-----------------------------------------------------------------------------
(* JSON bodies: a dict is a function from field names to values; a value   *)
(* is None (JNull) or a string (JStr).                                     *)

JNull == [null |-> TRUE, text |-> <<>>]
JStr(s) == [null |-> FALSE, text |-> s]

\* {}
EmptyDict == [k \in {} |-> JNull]

\* data.get(key)
Get(data, key) == IF key \in DOMAIN data THEN data[key] ELSE JNull

\* (v or "")
OrEmpty(v) == IF v.null \/ v.text = <<>> THEN <<>> ELSE v.text

-----------------------------------------------------------------------------
(* Outcomes of one call of the completion provider *)

Err(msg) == [ok |-> FALSE, msg |-> msg]
Ok(text) == [ok |-> TRUE, text |-> text]

-----------------------------------------------------------------------------
(* app.py *)

OPENAI_MODEL == "gpt-4o"

\* GET /health
health ==
    /\ req' = [endpoint |-> "GET /health", handler |-> "health"]
    /\ resp' = [status |-> 200, body |-> [status |-> "ok", model |-> OPENAI_MODEL]]
    /\ upstream_calls' = 0
    /\ UNCHANGED tmpdir

\* the content taken as sent, with the .strip() left out
RequestContentUnstripped(data) == OrEmpty(Get(data, "content"))

\* content = (data.get("content") or "").strip()
RequestContent(data) == Strip(OrEmpty(Get(data, "content")))

\* keywords = [line.strip(" -<bullet><tab>") for line in lines if line.strip()]
KeywordList(text) ==
    LET lines == SplitLines(text)
        kept == SelectSeq(lines, LAMBDA line : Strip(line) # <<>>)
    IN  [i \in 1..Len(kept) |-> StripSet(kept[i], BulletChars)]

\* POST /keywords
generate_keywords(data, outcome) ==
    /\ req' = [endpoint |-> "POST /keywords", handler |-> "generate_keywords",
               data |-> data, outcome |-> outcome]
    /\ UNCHANGED tmpdir
    /\ IF RequestContent(data) = <<>>
       THEN /\ resp' = [status |-> 400, body |-> [error |-> "Content is required"]]
            /\ upstream_calls' = 0
       ELSE /\ upstream_calls' = 1
            /\ resp' = IF outcome.ok
                       THEN [status |-> 200,
                             body |-> [keywords |-> KeywordList(outcome.text)]]
                       ELSE [status |-> 500, body |-> [error |-> outcome.msg]]

\* re.sub(r"^```[a-zA-Z]*\n?", "", html)
SubOpenFence(html) ==
    IF ~StartsWith(html, Fence) THEN html
    ELSE LET afterTag == LStripSet(SubSeq(html, 4, Len(html)), Letters)
         IN  IF afterTag # <<>> /\ Head(afterTag) = NL THEN Tail(afterTag)
             ELSE afterTag

\* re.sub(r"```$", "", html): $ matches at the end and before a final newline
SubCloseFence(html) ==
    IF EndsWith(html, Fence) THEN SubSeq(html, 1, Len(html) - 3)
    ELSE IF EndsWith(html, Fence \o <<NL>>)
         THEN SubSeq(html, 1, Len(html) - 4) \o <<NL>>
    ELSE html

\* the html /rewrite returns for a completion text
RewriteHtml(text) ==
    LET html == Strip(text)
    IN  IF StartsWith(html, Fence) THEN SubCloseFence(SubOpenFence(html))
        ELSE html

\* POST /rewrite (app.py)
rewrite_content(data, outcome) ==
    /\ req' = [endpoint |-> "POST /rewrite", handler |-> "rewrite_content",
               data |-> data, outcome |-> outcome]
    /\ UNCHANGED tmpdir
    /\ IF RequestContent(data) = <<>>
       THEN /\ resp' = [status |-> 400, body |-> [error |-> "Content is required"]]
            /\ upstream_calls' = 0
       ELSE /\ upstream_calls' = 1
            /\ resp' = IF outcome.ok
                       THEN [status |-> 200,
                             body |-> [html |-> RewriteHtml(outcome.text)]]
                       ELSE [status |-> 500, body |-> [error |-> outcome.msg]]

\* the document shell of /download around the fragment
FullPage(html_fragment) ==
    <<"<!DOCTYPE html>...<article ...>">> \o html_fragment
        \o <<"</article>...</html>">>

\* POST /download
download_html(data) ==
    /\ req' = [endpoint |-> "POST /download", handler |-> "download_html",
               data |-> data]
    /\ resp' = [status |-> 200,
                body |-> [attachment |-> "optimized.html",
                          file |-> FullPage(Strip(OrEmpty(Get(data, "html"))))]]
    /\ upstream_calls' = 0
    /\ UNCHANGED tmpdir

-----------------------------------------------------------------------------
(* routes/rewrite.py *)

\* the names tempfile.NamedTemporaryFile can give
FileIds == 1..MaxFiles

\* the page written to the temp file
Page(article_html) ==
    <<"<!doctype html>...<body>", NL>> \o article_html
        \o <<NL, "</body></html>">>

\* POST /rewrite (blueprint); an exception of the provider is not caught and
\* Flask answers 500
rewrite(data, outcome, fid) ==
    /\ req' = [endpoint |-> "POST /rewrite", handler |-> "rewrite",
               data |-> data, outcome |-> outcome]
    /\ upstream_calls' = 1
    /\ IF outcome.ok
       THEN LET article_html == Strip(outcome.text)
            IN  /\ fid \in FileIds \ DOMAIN tmpdir
                /\ tmpdir' = [f \in DOMAIN tmpdir \cup {fid} |->
                                 IF f = fid THEN Page(article_html) ELSE tmpdir[f]]
                /\ resp' = [status |-> 200,
                            body |-> [data |-> [html_block |-> article_html,
                                                download_path |-> fid]]]
       ELSE /\ resp' = [status |-> 500, body |-> [unhandled |-> outcome.msg]]
            /\ UNCHANGED tmpdir

\* GET /rewrite/download/<fid>
dl(fid) ==
    /\ req' = [endpoint |-> "GET /rewrite/download", handler |-> "dl", fid |-> fid]
    /\ upstream_calls' = 0
    /\ resp' = IF fid \notin DOMAIN tmpdir
               THEN [status |-> 404, body |-> [errors |-> <<"File not found">>]]
               ELSE [status |-> 200,
                     body |-> [attachment |-> "rewritten.html", file |-> tmpdir[fid]]]
    /\ UNCHANGED tmpdir

-----------------------------------------------------------------------------
(* Inputs *)

SeqsUpTo(S, n) == UNION {[1..k -> S] : k \in 0..n}

RECURSIVE Concat(_)
Concat(ps) == IF ps = <<>> THEN <<>> ELSE Head(ps) \o Concat(Tail(ps))

RECURSIVE JoinLines(_)
JoinLines(ls) ==
    IF ls = <<>> THEN <<>>
    ELSE IF Len(ls) = 1 THEN ls[1]
    ELSE ls[1] \o <<NL>> \o JoinLines(Tail(ls))

ContentChars == {" ", "a"}
Contents == SeqsUpTo(ContentChars, MaxContentLen) \cup {<<NL>>, <<"\t", NL>>}

\* {} , {"content": null}, {"content": "<text>"}
Bodies ==
    {EmptyDict} \cup {[content |-> v] : v \in {JNull} \cup {JStr(c) : c \in Contents}}

DownloadBodies ==
    {EmptyDict} \cup {[html |-> v] : v \in {JNull, JStr(<<>>), JStr(<<"<", "p", ">", NL>>)}}

ErrorMessages == {"Rate limit reached"}

\* the completion texts of the request-level specification
SampleTexts == {<<>>, <<"a", NL>>, <<"<", "p", ">", "a">>}
SampleOutcomes == {Err(m) : m \in ErrorMessages} \cup {Ok(t) : t \in SampleTexts}

\* "```html\n<h1>Title</h1>\n```"
ScenarioFenced ==
    Fence \o <<"h", "t", "m", "l", NL>>
          \o <<"<", "h", "1", ">", "T", "i", "t", "l", "e", "<", "/", "h", "1", ">">>
          \o <<NL>> \o Fence
ScenarioFencedBody ==
    <<"<", "h", "1", ">", "T", "i", "t", "l", "e", "<", "/", "h", "1", ">">>

RewritePieces == {Fence, <<"a">>, <<NL>>, <<"<">>, <<" ">>}
RewriteOutputs ==
    {Concat(ps) : ps \in SeqsUpTo(RewritePieces, MaxPieces)} \cup {ScenarioFenced}

\* "- Clean Water\n<bullet> clean water\n\tEducation"
ScenarioKeywords ==
    <<"-", " ", "C", "l", "e", "a", "n", " ", "W", "a", "t", "e", "r", NL>>
    \o <<Bullet, " ", "c", "l", "e", "a", "n", " ", "w", "a", "t", "e", "r", NL>>
    \o <<"\t", "E", "d", "u", "c", "a", "t", "i", "o", "n">>
ScenarioKeywordList ==
    << <<"C", "l", "e", "a", "n", " ", "W", "a", "t", "e", "r">>,
       <<"E", "d", "u", "c", "a", "t", "i", "o", "n">> >>

KwPrefixes == {<<>>, <<"-", " ">>, <<Bullet, " ">>, <<"\t">>}
KwWords == {<<>>, <<"A">>, <<"a">>, <<"b", "-">>}
KwLines == {p \o w : p \in KwPrefixes, w \in KwWords}
KeywordOutputs ==
    {JoinLines(ls) : ls \in SeqsUpTo(KwLines, MaxLines)} \cup {ScenarioKeywords}

\* a request whose content passes validation
SomeContent == [content |-> JStr(<<"a">>)]

-----------------------------------------------------------------------------
(* Specifications *)

Init ==
    /\ req = [endpoint |-> "", handler |-> "none"]
    /\ resp = [status |-> 0, body |-> <<>>]
    /\ upstream_calls = 0
    /\ tmpdir = [f \in {} |-> <<>>]

\* the service: any request at any time
Next ==
    \/ health
    \/ \E data \in Bodies, outcome \in SampleOutcomes : generate_keywords(data, outcome)
    \/ \E data \in Bodies, outcome \in SampleOutcomes : rewrite_content(data, outcome)
    \/ \E data \in DownloadBodies : download_html(data)
    \/ \E data \in Bodies, outcome \in SampleOutcomes, fid \in FileIds :
          rewrite(data, outcome, fid)
    \/ \E fid \in FileIds : dl(fid)

Spec == Init /\ [][Next]_vars

\* One request to /rewrite of app.py, over the completion texts RewriteOutputs.
\* The handler reads no state, so one request shows all it can do.
NextRewrite ==
    /\ req.handler = "none"
    /\ \E t \in RewriteOutputs : rewrite_content(SomeContent, Ok(t))

SpecRewrite == Init /\ [][NextRewrite]_vars

\* One request to /keywords, over the completion texts KeywordOutputs.
NextKeywords ==
    /\ req.handler = "none"
    /\ \E t \in KeywordOutputs : generate_keywords(SomeContent, Ok(t))

SpecKeywords == Init /\ [][NextKeywords]_vars

-----------------------------------------------------------------------------
(* What the claims speak of *)

Range(s) == {s[i] : i \in 1..Len(s)}

\* the request carries no content: the field is absent, null or ""
ContentIsEmpty(data) ==
    \/ "content" \notin DOMAIN data
    \/ data.content.null
    \/ data.content.text = <<>>

\* ... or the content is whitespace only
ContentIsBlank(data) ==
    \/ ContentIsEmpty(data)
    \/ Range(data.content.text) \subseteq Whitespace

\* the request reached the completion provider and the call failed
UpstreamFailed(handlers) ==
    /\ req.handler \in handlers
    /\ upstream_calls > 0
    /\ ~req.outcome.ok

\* the request was answered from a completion
Completed(handler) ==
    /\ req.handler = handler
    /\ upstream_calls > 0
    /\ req.outcome.ok

UpperCase == <<"A","B","C","D","E","F","G","H","I","J","K","L","M",
               "N","O","P","Q","R","S","T","U","V","W","X","Y","Z">>
LowerCase == <<"a","b","c","d","e","f","g","h","i","j","k","l","m",
               "n","o","p","q","r","s","t","u","v","w","x","y","z">>

ToLower(c) ==
    IF c \in Range(UpperCase)
    THEN LowerCase[CHOOSE i \in 1..Len(UpperCase) : UpperCase[i] = c]
    ELSE c

LowerText(s) == [i \in 1..Len(s) |-> ToLower(s[i])]

\* the position of the first line break of s, 0 when it has none
FirstBreak(s) ==
    IF NL \in Range(s) THEN CHOOSE i \in 1..Len(s) :
                              s[i] = NL /\ \A j \in 1..(i - 1) : s[j] # NL
    ELSE 0

\* s is an opening fence line (with an optional language tag), a body that
\* is not empty, and a closing fence line
IsFencedBlock(s) ==
    /\ StartsWith(s, Fence)
    /\ EndsWith(s, <<NL>> \o Fence)
    /\ FirstBreak(s) >= 4
    /\ Range(SubSeq(s, 4, FirstBreak(s) - 1)) \subseteq Letters
    /\ Len(s) - 4 > FirstBreak(s)

FencedBody(s) == SubSeq(s, FirstBreak(s) + 1, Len(s) - 4)

\* str.lstrip(chars), then trailing whitespace removed: what a line is said
\* to contribute
TrimmedLine(line) ==
    RStripSet(LStripSet(line, BulletChars \cup Whitespace), Whitespace)

Paragraph(text) == <<"<", "p", ">">> \o text \o <<"<", "/", "p", ">">>

\* the attempts the retry protocol allows by default: N = 2 retries
DefaultRetries == 2

-----------------------------------------------------------------------------
(* Claims *)

\* C1: a /keywords request whose content is absent, null, empty or
\* whitespace only is answered 400 with an error field in the body, and no
\* completion call is made for it.
C1_KeywordsRejectsEmptyContent ==
    (req.handler = "generate_keywords" /\ ContentIsBlank(req.data))
        => /\ resp.status = 400
           /\ "error" \in DOMAIN resp.body
           /\ upstream_calls = 0

\* C1 happens: a whitespace-only, non-empty content was sent to /keywords and
\* answered.
C1_Witness ==
    /\ req.handler = "generate_keywords"
    /\ ~ContentIsEmpty(req.data)
    /\ ContentIsBlank(req.data)
    /\ resp.status = 400

\* C2: both handlers of POST /rewrite answer a request without content with
\* 400 and do not call the completion provider.
C2_RewriteRejectsEmptyContent ==
    (req.handler \in {"rewrite_content", "rewrite"} /\ ContentIsEmpty(req.data))
        => /\ resp.status = 400
           /\ upstream_calls = 0

\* C3: a failed completion call of /keywords or /rewrite is answered 502 and
\* the body carries the error's message.
C3_UpstreamFailureIs502 ==
    UpstreamFailed({"generate_keywords", "rewrite_content"})
        => /\ resp.status = 502
           /\ "error" \in DOMAIN resp.body
           /\ resp.body.error = req.outcome.msg

\* C4: the completion call is retried after an error: a failure is reported
\* only after DefaultRetries + 1 attempts have been made, a completion ends
\* the attempts within that budget, and an empty completion is not retried.
C4_RetryProtocol ==
    /\ UpstreamFailed({"generate_keywords", "rewrite_content"})
          => upstream_calls = DefaultRetries + 1
    /\ (Completed("generate_keywords") \/ Completed("rewrite_content"))
          => /\ upstream_calls \in 1..(DefaultRetries + 1)
             /\ req.outcome.text = <<>> => resp.status = 200

\* C5: the keyword list of /keywords holds no two entries equal up to case,
\* and the scenario's output gives its two-entry list.
C5_KeywordsUniqueIgnoringCase ==
    Completed("generate_keywords")
        => LET kws == resp.body.keywords
           IN  /\ \A i, j \in 1..Len(kws) :
                     i < j => LowerText(kws[i]) # LowerText(kws[j])
               /\ req.outcome.text = ScenarioKeywords => kws = ScenarioKeywordList

\* C6: when the completion of /rewrite is a fenced block, the html returned
\* is the block's body, with nothing left over; the scenario's block gives
\* "<h1>Title</h1>".
C6_FencedBlockGivesBody ==
    (Completed("rewrite_content") /\ IsFencedBlock(req.outcome.text))
        => /\ resp.body.html = FencedBody(req.outcome.text)
           /\ req.outcome.text = ScenarioFenced
                 => resp.body.html = ScenarioFencedBody

\* C7: fence stripping is idempotent: applied to the html /rewrite returned,
\* it gives that html again.
C7_FenceStripIdempotent ==
    Completed("rewrite_content")
        => RewriteHtml(resp.body.html) = resp.body.html

\* C8: when the completion of /rewrite holds no '<' after fence stripping,
\* the html returned is that text wrapped in one paragraph element, so it is
\* not empty and holds a tag.
C8_PlainTextIsParagraphWrapped ==
    (Completed("rewrite_content") /\ "<" \notin Range(RewriteHtml(req.outcome.text)))
        => /\ resp.body.html # <<>>
           /\ "<" \in Range(resp.body.html)
           /\ resp.body.html = Paragraph(RewriteHtml(req.outcome.text))

\* C9: the service keeps nothing a request produced: after any sequence of
\* requests no file written by a request is left for a later one.
C9_NoStateOutlivesRequest == DOMAIN tmpdir = {}

\* C10: no entry of the keyword list is empty; the entries are the lines of
\* the completion that are not empty once whitespace and leading bullet
\* characters are trimmed, each trimmed that way.
C10_NoEmptyKeyword ==
    Completed("generate_keywords")
        => LET kws == resp.body.keywords
               lines == SplitLines(req.outcome.text)
               kept == SelectSeq(lines, LAMBDA line : TrimmedLine(line) # <<>>)
           IN  /\ \A i \in 1..Len(kws) : kws[i] # <<>>
               /\ kws = [i \in 1..Len(kept) |-> TrimmedLine(kept[i])]

=============================================================================
